---- MODULE Spec2Model ----
(***************************************************************************)
(* The panel-construction pipeline of qm2023-capstone-golden-squad:        *)
(* the raw data directory, the basic and the enhanced merge stage          *)
(* (merge_final_panel.py, merge_final_panel_enhanced.py) and the           *)
(* supplementary-variable stage (add_supplementary_variables.py).          *)
(*                                                                         *)
(* A table (pandas DataFrame) is a record [cols, rows]: cols the column    *)
(* names in order, rows a sequence of functions from column name to cell.  *)
(* The key cells (date, state) are integers: a date is a month index       *)
(* (1 = the first month of the fetch window), a state the rank of its      *)
(* two-letter code in alphabetical order.  A value cell is <<v>>, or NaN.  *)
(***************************************************************************)
EXTENDS Integers, Sequences, FiniteSets, TLC

\* Bounds of the model: months of the fetch window, number of states.
MaxDate == 3
NumStates == 2

\* Months of the fetch window of the long series, on which the offsets and
\* the window of the derived columns show.
LongMonths == 14

Dates == 1..MaxDate
States == 1..NumStates

NaN == <<>>
Val(v) == <<v>>

VARIABLES raw, stage, pc, rc, data, panel, out, env, argv, net, console

vars == <<raw, stage, pc, rc, data, panel, out, env, argv, net, console>>

\* What only the fetch entry points read and write: the credentials of the
\* environment, the options of the command line, the requests sent to the
\* providers (and the pauses between them), the error lines printed.
fetch_vars == <<env, argv, net, console>>

-----------------------------------------------------------------------------
(* pandas operations used by the stages *)

SeqToSet(s) == {s[i] : i \in 1..Len(s)}

\* A frame without columns and rows (also: "no frame assigned yet").
NoPanel == [cols |-> <<>>, rows |-> <<>>]

\* r1 sorts strictly before r2 on the key columns by (lexicographic, ascending).
RECURSIVE RowLess(_, _, _)
RowLess(r1, r2, by) ==
    IF by = <<>> THEN FALSE
    ELSE \/ r1[Head(by)] < r2[Head(by)]
         \/ r1[Head(by)] = r2[Head(by)] /\ RowLess(r1, r2, Tail(by))

\* r put into the sorted sequence s behind every row that does not sort after it.
RECURSIVE InsertRow(_, _, _)
InsertRow(s, r, by) ==
    IF s = <<>> THEN <<r>>
    ELSE IF RowLess(r, Head(s), by) THEN <<r>> \o s
    ELSE <<Head(s)>> \o InsertRow(Tail(s), r, by)

RECURSIVE SortRows(_, _)
SortRows(rows, by) ==
    IF rows = <<>> THEN <<>>
    ELSE InsertRow(SortRows(SubSeq(rows, 1, Len(rows) - 1), by), rows[Len(rows)], by)

\* A frame left in the order it has.
Unsorted(df, by) == df

\* df.sort_values(by).reset_index(drop=True)
SortValues(df, by) == [cols |-> df.cols, rows |-> SortRows(df.rows, by)]

\* The columns of right that are not join keys, in order.
ValueCols(right, on) == SelectSeq(right.cols, LAMBDA c : c \notin SeqToSet(on))

\* A comparison that is satisfied by one equal join key.
RowMatchesAnyKey(l, r, on) == \E i \in 1..Len(on) : l[on[i]] = r[on[i]]

\* A comparison of the first join key only.
RowMatchesFirstKey(l, r, on) == l[on[1]] = r[on[1]]

RowMatches(l, r, on) == \A i \in 1..Len(on) : l[on[i]] = r[on[i]]

\* A merge that drops the left rows without a match, whatever how says.
MergeRowInner(l, right, on, how) ==
    LET vc == SeqToSet(ValueCols(right, on))
        hits == SelectSeq(right.rows, LAMBDA r : RowMatches(l, r, on))
    IN  [i \in 1..Len(hits) |-> l @@ [c \in vc |-> hits[i][c]]]

\* A merge that fills the cells of a left row without a match with zero.
MergeRowFillZero(l, right, on, how) ==
    LET vc == SeqToSet(ValueCols(right, on))
        hits == SelectSeq(right.rows, LAMBDA r : RowMatches(l, r, on))
    IN  IF hits = <<>>
        THEN IF how = "left" THEN <<l @@ [c \in vc |-> Val(0)]>> ELSE <<>>
        ELSE [i \in 1..Len(hits) |-> l @@ [c \in vc |-> hits[i][c]]]

\* The result rows one left row contributes to left.merge(right, on, how).
MergeRow(l, right, on, how) ==
    LET vc == SeqToSet(ValueCols(right, on))
        hits == SelectSeq(right.rows, LAMBDA r : RowMatches(l, r, on))
    IN  IF hits = <<>>
        THEN IF how = "left" THEN <<l @@ [c \in vc |-> NaN]>> ELSE <<>>
        ELSE [i \in 1..Len(hits) |-> l @@ [c \in vc |-> hits[i][c]]]

RECURSIVE MergeRows(_, _, _, _)
MergeRows(lrows, right, on, how) ==
    IF lrows = <<>> THEN <<>>
    ELSE MergeRow(Head(lrows), right, on, how) \o MergeRows(Tail(lrows), right, on, how)

\* left.merge(right, on=on, how=how), how in {"inner", "left"}
Merge(left, right, on, how) ==
    [cols |-> left.cols \o ValueCols(right, on),
     rows |-> MergeRows(left.rows, right, on, how)]

\* pandas' NaT, the minimum or maximum of a date column without rows: no
\* month index, and every comparison with it is false.
NaT == 0 - 1

DateGt(x, y) == x # NaT /\ y # NaT /\ x > y
DateGe(x, y) == x # NaT /\ y # NaT /\ x >= y
DateLe(x, y) == x # NaT /\ y # NaT /\ x <= y

\* A date filter that excludes the two bounds.
FilterDatesStrict(df, lo, hi) ==
    [cols |-> df.cols,
     rows |-> SelectSeq(df.rows, LAMBDA r : DateGt(r.date, lo) /\ DateGt(hi, r.date))]

\* df[(df['date'] >= lo) & (df['date'] <= hi)].reset_index(drop=True)
FilterDates(df, lo, hi) ==
    [cols |-> df.cols,
     rows |-> SelectSeq(df.rows, LAMBDA r : DateGe(r.date, lo) /\ DateLe(r.date, hi))]

\* df[cols]
SelectCols(df, cols) ==
    [cols |-> cols,
     rows |-> [i \in 1..Len(df.rows) |-> [c \in SeqToSet(cols) |-> df.rows[i][c]]]]

DateSet(df) == {df.rows[i].date : i \in 1..Len(df.rows)}

\* df['date'].min(), df['date'].max()
MinDate(df) ==
    IF df.rows = <<>> THEN NaT
    ELSE CHOOSE d \in DateSet(df) : \A e \in DateSet(df) : d <= e

MaxDateOf(df) ==
    IF df.rows = <<>> THEN NaT
    ELSE CHOOSE d \in DateSet(df) : \A e \in DateSet(df) : d >= e

\* Python's max(a, b, c) and min(a, b, c): the first argument, replaced by
\* each later one that compares greater (less) than the result so far.
PyMax3(a, b, c) ==
    LET ab == IF DateGt(b, a) THEN b ELSE a
    IN  IF DateGt(c, ab) THEN c ELSE ab

PyMin3(a, b, c) ==
    LET ab == IF DateGt(a, b) THEN b ELSE a
    IN  IF DateGt(ab, c) THEN c ELSE ab

-----------------------------------------------------------------------------
(* The raw data directory and the output directories *)

\* core_files and optional_files of load_raw_data: data key -> file name
core_files ==
    [federal_funds |-> "federal_funds_rate.csv",
     national_unemployment |-> "national_unemployment_rate.csv",
     state_unemployment |-> "state_unemployment_rates.csv"]

optional_files ==
    [inflation |-> "inflation_cpi.csv",
     recession |-> "recession_indicator.csv",
     treasury_10y |-> "treasury_10y_yield.csv",
     employment_level |-> "state_employment_level.csv",
     labor_force_level |-> "state_labor_force_level.csv",
     private_employment |-> "state_private_employment.csv"]

CoreKeys == <<"federal_funds", "national_unemployment", "state_unemployment">>
NationalKeys == <<"inflation", "recession", "treasury_10y">>
StateKeys == <<"employment_level", "labor_force_level", "private_employment">>

\* The value column each raw file carries (fetch_data.py names them).
ValueColumn ==
    [federal_funds |-> "federal_funds_rate",
     national_unemployment |-> "national_unemployment_rate",
     state_unemployment |-> "unemployment_rate",
     inflation |-> "inflation_cpi",
     recession |-> "recession_indicator",
     treasury_10y |-> "treasury_10y_yield",
     employment_level |-> "total_employment_level",
     labor_force_level |-> "labor_force_level",
     private_employment |-> "private_employment"]

RawNames ==
    {core_files[k] : k \in DOMAIN core_files} \cup
    {optional_files[k] : k \in DOMAIN optional_files}

\* Every file a fetch entry point writes into the raw data directory: the
\* files above, the metadata file of fetch_data.py and the ten series of
\* fetch_bls_data.py.
RawDirNames ==
    RawNames \cup {"FETCH_METADATA.md"} \cup
    {"cpi.csv", "total_nonfarm_employment.csv", "civilian_labor_force.csv",
     "total_private_employment.csv", "manufacturing_employment.csv",
     "construction_employment.csv", "average_hourly_earnings.csv",
     "job_openings.csv", "quits_rate.csv", "employment_level.csv"}

\* The observation a provider reports for a series at a date (and state;
\* 0 for a national series): every cell of every series has its own number,
\* so a panel cell shows where it was taken from, and the numbers of a series
\* are not evenly spaced, so a difference or a deviation shows the dates it
\* was computed from.
Observation(series, d, s) == series * 1000 + s * 250 + d * d

SeriesNo ==
    [federal_funds |-> 1, national_unemployment |-> 2, state_unemployment |-> 3,
     inflation |-> 4, recession |-> 5, treasury_10y |-> 6,
     employment_level |-> 7, labor_force_level |-> 8, private_employment |-> 9]

NatRow(key, d) ==
    (ValueColumn[key] :> Val(Observation(SeriesNo[key], d, 0))) @@ [date |-> d]

StateRow(key, d, s) ==
    (ValueColumn[key] :> Val(Observation(SeriesNo[key], d, s))) @@
    [date |-> d, state |-> s]

\* A national raw file as fetch_data writes it: columns date, <value>, one
\* row per date of D, dates ascending.
NatTable(key, D) ==
    [cols |-> <<"date", ValueColumn[key]>>,
     rows |-> SelectSeq([d \in 1..MaxDate |-> NatRow(key, d)], LAMBDA r : r.date \in D)]

\* A state-scoped raw file: columns date, state, <value>, one row per cell
\* of C, sorted by (date, state).
StateTable(key, C) ==
    [cols |-> <<"date", "state", ValueColumn[key]>>,
     rows |-> SelectSeq([k \in 1..(MaxDate * NumStates) |->
                            StateRow(key, ((k - 1) \div NumStates) + 1,
                                          ((k - 1) % NumStates) + 1)],
                        LAMBDA r : <<r.date, r.state>> \in C)]

Absent == [exists |-> FALSE, table |-> NoPanel]
File(t) == [exists |-> TRUE, table |-> t]

\* save_raw_data writes a file only for a non-empty frame: no observations, no file.
NatFile(key, D) == IF D = {} THEN Absent ELSE File(NatTable(key, D))
StateFile(key, C) == IF C = {} THEN Absent ELSE File(StateTable(key, C))

OutNames ==
    {"panel_processed.csv", "analysis_panel.csv", "M1_data_quality_report.md",
     "panel_enhanced.csv", "analysis_panel_enhanced.csv",
     "M2_enhanced_data_quality_report.md", "enhanced_panel_data_dictionary.md"}

\* An output file: whether it exists, the stage that wrote it last, the table it holds.
NoFile == [exists |-> FALSE, by |-> "none", table |-> NoPanel]
Written(by, t) == [exists |-> TRUE, by |-> by, table |-> t]

-----------------------------------------------------------------------------
(* merge_final_panel.py: the basic merge stage *)

\* load_raw_data: a record [ok, data]; ok is FALSE when a file is missing
\* (FileNotFoundError), data maps each key to the frame read from its file.
load_raw_data_basic(dir) ==
    IF \A k \in DOMAIN core_files : dir[core_files[k]].exists
    THEN [ok |-> TRUE, data |-> [k \in DOMAIN core_files |-> dir[core_files[k]].table]]
    ELSE [ok |-> FALSE, data |-> <<>>]

\* The earliest of the three first dates.
common_start_earliest(state_unemp, federal_funds, national_unemp) ==
    PyMin3(MinDate(state_unemp), MinDate(federal_funds), MinDate(national_unemp))

\* The start of the range taken state by state: the first date of the state
\* whose series starts last.
common_start_per_state(state_unemp, federal_funds, national_unemp) ==
    LET S == {state_unemp.rows[i].state : i \in 1..Len(state_unemp.rows)}
        first(s) == CHOOSE d \in {state_unemp.rows[i].date :
                                   i \in {j \in 1..Len(state_unemp.rows) :
                                            state_unemp.rows[j].state = s}} :
                        \A i \in 1..Len(state_unemp.rows) :
                            state_unemp.rows[i].state = s => d <= state_unemp.rows[i].date
        latest == IF S = {} THEN NaT
                  ELSE CHOOSE x \in {first(s) : s \in S} : \A s \in S : x >= first(s)
    IN  PyMax3(latest, MinDate(federal_funds), MinDate(national_unemp))

\* The end of the range taken from the first dates of the series.
common_end_of_starts(state_unemp, federal_funds, national_unemp) ==
    PyMin3(MinDate(state_unemp), MinDate(federal_funds), MinDate(national_unemp))

\* common_start and common_end of create_state_panel
common_start(state_unemp, federal_funds, national_unemp) ==
    PyMax3(MinDate(state_unemp), MinDate(federal_funds), MinDate(national_unemp))

common_end(state_unemp, federal_funds, national_unemp) ==
    PyMin3(MaxDateOf(state_unemp), MaxDateOf(federal_funds), MaxDateOf(national_unemp))

\* The base panel with the state series left-joined to the national data.
base_panel_left(state_unemp, federal_funds, national_unemp) ==
    LET ff == SortValues(federal_funds, <<"date">>)
        nu == SortValues(national_unemp, <<"date">>)
        su == SortValues(state_unemp, <<"date">>)
        national_data == Merge(ff, nu, <<"date">>, "inner")
    IN  Merge(su, national_data, <<"date">>, "left")

\* The two inner joins of create_state_panel: the base panel.
base_panel(state_unemp, federal_funds, national_unemp) ==
    LET ff == SortValues(federal_funds, <<"date">>)
        nu == SortValues(national_unemp, <<"date">>)
        su == SortValues(state_unemp, <<"date">>)
        national_data == Merge(ff, nu, <<"date">>, "inner")
    IN  Merge(su, national_data, <<"date">>, "inner")

BasicColumns ==
    <<"date", "state", "unemployment_rate", "national_unemployment_rate",
      "federal_funds_rate">>

\* create_state_panel(state_unemployment_df, federal_funds_df, national_unemployment_df)
create_state_panel_basic(state_unemp, federal_funds, national_unemp) ==
    LET merged == base_panel(state_unemp, federal_funds, national_unemp)
        filtered == FilterDates(merged,
                        common_start(state_unemp, federal_funds, national_unemp),
                        common_end(state_unemp, federal_funds, national_unemp))
    IN  SortValues(SelectCols(filtered, BasicColumns), <<"date", "state">>)

\* generate_data_quality_report of the basic stage raises on a panel without
\* rows: unemployment_rate.idxmin() has nothing to return.
basic_report_raises(p) == p.rows = <<>>

\* counts = panel.groupby('state').size(): the number of rows of each state.
group_sizes(p) ==
    [s \in {p.rows[i].state : i \in 1..Len(p.rows)} |->
        Cardinality({i \in 1..Len(p.rows) : p.rows[i].state = s})]

\* A panel is reported as balanced whenever it has a row.
counts_nonempty(counts) == DOMAIN counts # {}

\* is_balanced = len(counts.unique()) == 1
is_balanced(counts) == Cardinality({counts[s] : s \in DOMAIN counts}) = 1

\* The panel structure section of generate_data_quality_report (the same in
\* both merge stages): balanced with counts.iloc[0], the count of the first
\* state, or unbalanced with counts.min() and counts.max(), which are nan
\* when there is no state.
panel_structure(p) ==
    LET counts == group_sizes(p)
        sizes == {counts[s] : s \in DOMAIN counts}
    IN  IF is_balanced(counts)
        THEN [balanced |-> TRUE,
              observations |->
                  counts[CHOOSE s \in DOMAIN counts : \A x \in DOMAIN counts : s <= x]]
        ELSE [balanced |-> FALSE,
              min |-> IF sizes = {} THEN NaN
                      ELSE Val(CHOOSE c \in sizes : \A x \in sizes : c <= x),
              max |-> IF sizes = {} THEN NaN
                      ELSE Val(CHOOSE c \in sizes : \A x \in sizes : c >= x)]

\* A report file that holds a panel structure section.
WrittenReport(by, p) ==
    [exists |-> TRUE, by |-> by, table |-> NoPanel, structure |-> panel_structure(p)]

\* main of merge_final_panel.py: load, assemble, write the two panel files, write
\* the report; the first exception ends the run with exit code 1.
BasicMain ==
    /\ pc = "idle"
    /\ stage' = "basic"
    /\ pc' = "done"
    /\ LET r == load_raw_data_basic(raw)
           p == create_state_panel_basic(r.data.state_unemployment, r.data.federal_funds,
                                         r.data.national_unemployment)
           saved == [out EXCEPT !["panel_processed.csv"] = Written("basic", p),
                                !["analysis_panel.csv"] = Written("basic", p)]
       IN  IF ~r.ok
           THEN /\ rc' = 1
                /\ UNCHANGED <<data, panel, out>>
           ELSE /\ data' = r.data
                /\ panel' = p
                /\ IF basic_report_raises(p)
                   THEN /\ out' = saved
                        /\ rc' = 1
                   ELSE /\ out' = [saved EXCEPT !["M1_data_quality_report.md"] =
                                                    WrittenReport("basic", p)]
                        /\ rc' = 0
    /\ UNCHANGED raw
    /\ UNCHANGED fetch_vars

-----------------------------------------------------------------------------
(* merge_final_panel_enhanced.py: the enhanced merge stage *)

\* A loader that requires the optional files as well.
load_raw_data_strict(dir) ==
    IF \A n \in RawNames : dir[n].exists
    THEN [ok |-> TRUE,
          data |-> [k \in DOMAIN core_files |-> dir[core_files[k]].table] @@
                   [k \in DOMAIN optional_files |-> dir[optional_files[k]].table]]
    ELSE [ok |-> FALSE, data |-> <<>>]

\* A loader that reads whatever core file exists and goes on.
load_raw_data_lenient(dir) ==
    IF \E k \in DOMAIN core_files : dir[core_files[k]].exists
    THEN [ok |-> TRUE,
          data |-> [k \in DOMAIN core_files |-> dir[core_files[k]].table] @@
                   [k \in {o \in DOMAIN optional_files : dir[optional_files[o]].exists}
                       |-> dir[optional_files[k]].table]]
    ELSE [ok |-> FALSE, data |-> <<>>]

\* load_raw_data: the core files are required, an optional file that is
\* missing is skipped (its key is not in data).
load_raw_data(dir) ==
    IF \A k \in DOMAIN core_files : dir[core_files[k]].exists
    THEN [ok |-> TRUE,
          data |-> [k \in DOMAIN core_files |-> dir[core_files[k]].table] @@
                   [k \in {o \in DOMAIN optional_files : dir[optional_files[o]].exists}
                       |-> dir[optional_files[k]].table]]
    ELSE [ok |-> FALSE, data |-> <<>>]

\* date.dt.year and date.dt.month of month index d (month 1 is January 1990)
YearOf(d) == 1990 + ((d - 1) \div 12)
MonthOf(d) == ((d - 1) % 12) + 1

\* df['date'].dt.month.nunique() == 1: every date of the frame falls in the
\* same calendar month.
one_month(df) == Cardinality({MonthOf(df.rows[i].date) : i \in 1..Len(df.rows)}) = 1

\* harmonize_frequencies looks at data['real_income'] only, a key that
\* load_raw_data never sets; every other frame is returned as it was loaded.
\* For an annual real_income frame it calls interpolate with the method
\* name 'forward_fill', which pandas rejects with a ValueError.
harmonize_raises(d) == "real_income" \in DOMAIN d /\ one_month(d["real_income"])

harmonize_frequencies(d) == d

RECURSIVE left_join_all(_, _, _, _)
\* The loops of create_state_panel over the optional keys: each frame that
\* was loaded is sorted by its keys and left-joined on them.
left_join_all(p, keys, d, on) ==
    IF keys = <<>> THEN p
    ELSE left_join_all(
             IF Head(keys) \in DOMAIN d
             THEN Merge(p, SortValues(d[Head(keys)], on), on, "left")
             ELSE p,
             Tail(keys), d, on)

\* create_state_panel(state_unemp, federal_funds, national_unemp, data)
\* The joins of create_state_panel: the base panel, then a left join for
\* every optional series that was loaded.
joined_panel(state_unemp, federal_funds, national_unemp, d) ==
    LET base == base_panel(state_unemp, federal_funds, national_unemp)
        nat == left_join_all(base, NationalKeys, d, <<"date">>)
    IN  left_join_all(nat, StateKeys, d, <<"date", "state">>)

create_state_panel(state_unemp, federal_funds, national_unemp, d) ==
    LET all == joined_panel(state_unemp, federal_funds, national_unemp, d)
        filtered == FilterDates(all,
                        common_start(state_unemp, federal_funds, national_unemp),
                        common_end(state_unemp, federal_funds, national_unemp))
    IN  SortValues(filtered, <<"date", "state">>)

\* A derivation that stamps every row with the run that made it: 1 for the
\* first run of a merge stage on the directory, 2 for a later one.
calculate_derived_variables_stamped(p) ==
    [cols |-> p.cols \o <<"year", "month", "generated">>,
     rows |-> [i \in 1..Len(p.rows) |->
                 p.rows[i] @@ [year |-> YearOf(p.rows[i].date),
                               month |-> MonthOf(p.rows[i].date),
                               generated |-> IF stage = "none" THEN 1 ELSE 2]]]

\* calculate_derived_variables of the enhanced stage: the columns year and month
calculate_derived_variables_enhanced(p) ==
    [cols |-> p.cols \o <<"year", "month">>,
     rows |-> [i \in 1..Len(p.rows) |->
                 p.rows[i] @@ [year |-> YearOf(p.rows[i].date),
                               month |-> MonthOf(p.rows[i].date)]]]

\* main of merge_final_panel_enhanced.py: load, harmonize, assemble, derive,
\* write the two panel files and the report, exit code 0; a missing core file
\* ends the run with exit code 1.
EnhancedMain ==
    /\ pc = "idle"
    /\ stage' = "enhanced"
    /\ pc' = "done"
    /\ LET r == load_raw_data(raw)
           d == harmonize_frequencies(r.data)
           p == calculate_derived_variables_enhanced(
                    create_state_panel(d.state_unemployment, d.federal_funds,
                                       d.national_unemployment, d))
       IN  IF ~r.ok \/ harmonize_raises(r.data)
           THEN /\ rc' = 1
                /\ UNCHANGED <<data, panel, out>>
           ELSE /\ data' = d
                /\ panel' = p
                /\ out' = [out EXCEPT
                              !["panel_enhanced.csv"] = Written("enhanced", p),
                              !["analysis_panel_enhanced.csv"] = Written("enhanced", p),
                              !["M2_enhanced_data_quality_report.md"] =
                                  WrittenReport("enhanced", p)]
                /\ rc' = 0
    /\ UNCHANGED raw
    /\ UNCHANGED fetch_vars

-----------------------------------------------------------------------------
(* add_supplementary_variables.py: the supplementary-variable stage *)

\* supplementary_files of load_panel_and_raw_data: key -> raw file
supplementary_files ==
    [inflation |-> "inflation_cpi.csv",
     recession |-> "recession_indicator.csv",
     treasury |-> "treasury_10y_yield.csv"]

SupplementaryKeys == <<"inflation", "recession", "treasury">>

\* load_panel_and_raw_data: [ok, panel, raw_data]; ok is FALSE when
\* analysis_panel.csv is missing (FileNotFoundError).
load_panel_and_raw_data(final, dir) ==
    IF final["analysis_panel.csv"].exists
    THEN [ok |-> TRUE,
          panel |-> final["analysis_panel.csv"].table,
          raw_data |-> [k \in {o \in DOMAIN supplementary_files :
                                  dir[supplementary_files[o]].exists}
                           |-> dir[supplementary_files[k]].table]]
    ELSE [ok |-> FALSE, panel |-> NoPanel, raw_data |-> <<>>]

\* What fetch_national_employment_shares can return: None when the total
\* payroll series cannot be fetched, else the dates of the series fetched
\* (total always, each of the other three only if its request succeeded).
NoEmployment == [fetched |-> FALSE, series |-> <<>>]
Employment(e) == [fetched |-> TRUE, series |-> e]

EmploymentOutcomes ==
    {NoEmployment,
     Employment([total |-> 1..(MaxDate - 1), manufacturing |-> Dates \ {1},
                 lfpr |-> Dates]),
     Employment([total |-> Dates, manufacturing |-> {}, construction |-> Dates])}

ShareNo == [manufacturing |-> 11, construction |-> 12, lfpr |-> 13]

ShareColumn ==
    [manufacturing |-> "manufacturing_employment_share",
     construction |-> "construction_employment_share",
     lfpr |-> "labor_force_participation_rate"]

\* The frame one series contributes to shares_df: a share is computed on the
\* dates the series has in common with the total, the participation rate on
\* the dates of its own series.
ShareFrame(e, k) ==
    LET D == IF k = "lfpr" THEN e[k] ELSE e[k] \cap e.total
    IN  [cols |-> <<"date", ShareColumn[k]>>,
         rows |-> SelectSeq([d \in 1..MaxDate |->
                                (ShareColumn[k] :> Val(Observation(ShareNo[k], d, 0)))
                                @@ [date |-> d]],
                            LAMBDA r : r.date \in D)]

RECURSIVE add_share_columns(_, _, _)
add_share_columns(shares, keys, e) ==
    IF keys = <<>> THEN shares
    ELSE add_share_columns(
             IF /\ Head(keys) \in DOMAIN e
                /\ (Head(keys) = "lfpr" \/ ShareFrame(e, Head(keys)).rows # <<>>)
             THEN Merge(shares, ShareFrame(e, Head(keys)), <<"date">>, "left")
             ELSE shares,
             Tail(keys), e)

\* calculate_employment_shares(employment_data): one row per date of the total
\* series, one column per share that could be computed
calculate_employment_shares(e) ==
    add_share_columns(
        [cols |-> <<"date">>,
         rows |-> SelectSeq([d \in 1..MaxDate |-> [date |-> d]],
                            LAMBDA r : r.date \in e.total)],
        <<"manufacturing", "construction", "lfpr">>, e)

\* add_employment_shares(panel, shares_df)
add_employment_shares(p, shares) == Merge(p, shares, <<"date">>, "left")

RECURSIVE add_raw_from(_, _, _)
add_raw_from(p, keys, raw_data) ==
    IF keys = <<>> THEN p
    ELSE add_raw_from(
             IF Head(keys) \in DOMAIN raw_data
             THEN Merge(p, raw_data[Head(keys)], <<"date">>, "left")
             ELSE p,
             Tail(keys), raw_data)

\* add_raw_supplementary_variables(panel, raw_data)
add_raw_supplementary_variables(p, raw_data) ==
    add_raw_from(p, SupplementaryKeys, raw_data)

\* Offsets and window of calculate_derived_variables
YoyNear == 1
YoyFar == 13
LagMonths == 1
VolatilityWindow == 12
VolatilityMinPeriods == 1

Minus(a, b) == IF a = NaN \/ b = NaN THEN NaN ELSE Val(a[1] - b[1])

\* The positions before i, ascending, of the rows of the state of row i.
OwnEarlier(rows, i) ==
    SelectSeq([j \in 1..(i - 1) |-> j], LAMBDA j : rows[j].state = rows[i].state)

\* A shift that ignores the grouping: the cell k rows up in the panel.
UngroupedShift(rows, col, k, i) == IF i > k THEN rows[i - k][col] ELSE NaN

\* panel.groupby('state')[col].shift(k), at row i
GroupShift(rows, col, k, i) ==
    LET own == OwnEarlier(rows, i)
    IN  IF Len(own) >= k THEN rows[own[Len(own) - k + 1]][col] ELSE NaN

\* panel[col].shift(k), at row i
Shift(rows, col, k, i) == IF i > k THEN rows[i - k][col] ELSE NaN

RECURSIVE SumSeq(_)
SumSeq(q) == IF q = <<>> THEN 0 ELSE Head(q) + SumSeq(Tail(q))

\* The sample standard deviation of the numbers of w, kept as the pair
\* <<n, n * sum of squares - square of the sum>> that determines it
\* (std = sqrt(second / (n * (n - 1)))); NaN for fewer than two numbers.
\* The sums are taken of the distances to the first number, which leaves the
\* second component as it is and keeps the products small.
SampleStd(w) ==
    IF Len(w) < 2 THEN NaN
    ELSE LET x == [i \in 1..Len(w) |-> w[i] - w[1]]
         IN  Val(<<Len(w),
                   Len(w) * SumSeq([i \in 1..Len(w) |-> x[i] * x[i]])
                       - SumSeq(x) * SumSeq(x)>>)

\* The rows of p in the order of groupby('state'): states ascending, each
\* state's rows in panel order; as positions of the panel.
GroupOrder(rows) ==
    LET byState == SortRows([i \in 1..Len(rows) |-> [state |-> rows[i].state, pos |-> i]],
                            <<"state">>)
    IN  [i \in 1..Len(rows) |-> byState[i].pos]

\* rolling(window, min_periods).std() of col over the state of row i, at row i
GroupRollingStd(rows, col, i) ==
    LET own == OwnEarlier(rows, i) \o <<i>>
        from == IF Len(own) > VolatilityWindow THEN Len(own) - VolatilityWindow + 1 ELSE 1
        cells == [j \in 1..(Len(own) - from + 1) |-> rows[own[from + j - 1]][col]]
        nums == SelectSeq(cells, LAMBDA c : c # NaN)
        w == [j \in 1..Len(nums) |-> nums[j][1]]
    IN  IF Len(w) < VolatilityMinPeriods THEN NaN ELSE SampleStd(w)

\* The difference of the value twelve months back to the value of the row.
unemployment_yoy_change_12(rows, i) ==
    Minus(rows[i].unemployment_rate, GroupShift(rows, "unemployment_rate", 12, i))

\* panel['unemployment_yoy_change'] at row i
unemployment_yoy_change(rows, i) ==
    Minus(GroupShift(rows, "unemployment_rate", YoyNear, i),
          GroupShift(rows, "unemployment_rate", YoyFar, i))

\* calculate_derived_variables(panel) of the supplementary stage.  The rolling
\* result comes in groupby order and is renumbered 0..n-1 by
\* reset_index(drop=True) before it is assigned: row i of the panel receives
\* the i-th value of that order.
calculate_derived_variables(p) ==
    LET rows == p.rows
        order == GroupOrder(rows)
    IN  [cols |-> p.cols \o <<"unemployment_yoy_change", "fed_rate_change",
                              "unemployment_lagged_1mo", "fed_rate_lagged_1mo",
                              "unemployment_volatility_12mo">>,
         rows |-> [i \in 1..Len(rows) |->
                     rows[i] @@
                     [unemployment_yoy_change |-> unemployment_yoy_change(rows, i),
                      fed_rate_change |->
                          Minus(rows[i].federal_funds_rate,
                                Shift(rows, "federal_funds_rate", 1, i)),
                      unemployment_lagged_1mo |->
                          GroupShift(rows, "unemployment_rate", LagMonths, i),
                      fed_rate_lagged_1mo |->
                          Shift(rows, "federal_funds_rate", LagMonths, i),
                      unemployment_volatility_12mo |->
                          GroupRollingStd(rows, "unemployment_rate", order[i])]]]

\* main of add_supplementary_variables.py, when the panel file is missing or
\* the API key cannot be read from the .env file: exit code 1.
SupplementaryFails ==
    /\ pc = "done"
    /\ stage = "basic"
    /\ stage' = "supplementary"
    /\ rc' = 1
    /\ UNCHANGED <<raw, pc, data, panel, out>>
    /\ UNCHANGED fetch_vars

\* main of add_supplementary_variables.py, when the panel file exists and the
\* key is read.  emp: what the employment fetch returns.
SupplementaryMain ==
    /\ pc = "done"
    /\ stage = "basic"
    /\ load_panel_and_raw_data(out, raw).ok
    /\ stage' = "supplementary"
    /\ \E emp \in EmploymentOutcomes :
         LET r == load_panel_and_raw_data(out, raw)
             withShares == IF emp.fetched
                           THEN add_employment_shares(
                                    r.panel, calculate_employment_shares(emp.series))
                           ELSE r.panel
             p == calculate_derived_variables(
                      add_raw_supplementary_variables(withShares, r.raw_data))
         IN  /\ data' = r.raw_data @@
                      [shares |-> IF emp.fetched
                                  THEN calculate_employment_shares(emp.series)
                                  ELSE NoPanel]
             /\ panel' = p
             /\ out' = [out EXCEPT
                           !["analysis_panel_enhanced.csv"] = Written("supplementary", p),
                           !["enhanced_panel_data_dictionary.md"] =
                               Written("supplementary", NoPanel)]
             /\ rc' = 0
    /\ UNCHANGED <<raw, pc>>
    /\ UNCHANGED fetch_vars

-----------------------------------------------------------------------------
(* fetch_data.py and fetch_bls_data.py: the fetch entry points *)

\* The series a provider holds start before the fetch window or inside it:
\* a national series (state 0) and the series of the first state one month
\* before start_date, the series of state s in month s - 1.
ProviderFrom(s) == IF s = 0 THEN 0 ELSE s - 1

\* start_date of the command line, as a month of the model.
start_date == 1

\* A request sent to a provider and whether it was answered.
Request(series, s, ok) == [series |-> series, state |-> s, ok |-> ok]

\* fetch_federal_funds_rate and its like on an answered request: the frame of
\* the series, the rows before start_date dropped.
national_frame(key) ==
    LET answer == [i \in 1..(MaxDate - ProviderFrom(0) + 1) |->
                       NatRow(key, ProviderFrom(0) + i - 1)]
    IN  [cols |-> <<"date", ValueColumn[key]>>,
         rows |-> SelectSeq(answer, LAMBDA r : DateGe(r.date, start_date))]

\* The frame of one state inside the loop of fetch_state_unemployment_rates
\* and of fetch_state_supplementary_series.
state_frame(key, s) ==
    LET answer == [i \in 1..(MaxDate - ProviderFrom(s) + 1) |->
                       StateRow(key, ProviderFrom(s) + i - 1, s)]
    IN  [cols |-> <<"date", "state", ValueColumn[key]>>,
         rows |-> SelectSeq(answer, LAMBDA r : DateGe(r.date, start_date))]

RECURSIVE concat_rows(_)
\* pd.concat(all_data, ignore_index=True): the rows of the frames one after
\* the other.
concat_rows(frames) ==
    IF frames = <<>> THEN <<>> ELSE Head(frames).rows \o concat_rows(Tail(frames))

combined_df(key, all_data) ==
    SortValues([cols |-> <<"date", "state", ValueColumn[key]>>,
                rows |-> concat_rows(all_data)],
               <<"date", "state">>)

\* The state -> series id dictionaries, as the states in the order of the
\* dictionary: every state has an unemployment, an employment level and a
\* labor force series, STATE_PRIVATE_EMPLOYMENT names fewer states.
series_dict(key) ==
    IF key = "private_employment"
    THEN [i \in 1..(NumStates - 1) |-> i]
    ELSE [i \in 1..NumStates |-> i]

\* The position of the loop over a dictionary after the item at position i
\* has been handled: an exception inside the try is caught, the loop goes on.
next_item_abort(i, ok) == IF ok THEN i + 1 ELSE NumStates + 1
next_item(i, ok) == i + 1

\* The state loops in the order main calls them.
StateLoops == <<"state_unemployment", "employment_level", "labor_force_level",
                "private_employment">>

FetchedKeys == SeqToSet(CoreKeys) \cup SeqToSet(NationalKeys) \cup SeqToSet(StateKeys)

\* A frame a fetch function has not returned (None, or not called yet).
None == [fetched |-> FALSE, df |-> NoPanel]
Fetched(df) == [fetched |-> TRUE, df |-> df]

\* The locals of main of fetch_data.py and of the loop it is in: the frames
\* returned so far, the loops that have ended, the dictionary being looped
\* over and the position in it, all_data and failed_states of the loop.
NoLocals ==
    [frames |-> [k \in FetchedKeys |-> None], ended |-> {},
     series |-> "state_unemployment", i |-> 1, all_data |-> <<>>, failed_states |-> <<>>]

\* get_fred_api_key: the key of the environment, or ValueError.
get_fred_api_key(e) == [ok |-> "FRED_API_KEY" \in e]

\* main of fetch_data.py up to the FRED client: the key of the command line
\* or of the environment; without a key an error line and sys.exit(1).
FetchDataStart ==
    /\ pc = "idle"
    /\ stage' = "fetch_data"
    /\ IF "--api-key" \in argv \/ get_fred_api_key(env).ok
       THEN /\ pc' = "core"
            /\ data' = NoLocals
            /\ UNCHANGED <<rc, console>>
       ELSE /\ pc' = "done"
            /\ rc' = 1
            /\ console' = Append(console, "ERROR: FRED API key not found")
            /\ UNCHANGED data
    /\ UNCHANGED <<raw, panel, out, env, argv, net>>

\* fetch_federal_funds_rate, fetch_national_unemployment_rate: a failed
\* request is raised again and main returns 1.
FetchCore ==
    /\ pc = "core"
    /\ \E ff \in BOOLEAN, nu \in BOOLEAN :
         /\ net' = net \o
                   IF ff
                   THEN <<Request("federal_funds", 0, TRUE),
                          Request("national_unemployment", 0, nu)>>
                   ELSE <<Request("federal_funds", 0, FALSE)>>
         /\ IF ff /\ nu
            THEN /\ pc' = "states"
                 /\ data' = [data EXCEPT
                               !.frames["federal_funds"] =
                                   Fetched(national_frame("federal_funds")),
                               !.frames["national_unemployment"] =
                                   Fetched(national_frame("national_unemployment"))]
                 /\ UNCHANGED <<rc, console>>
            ELSE /\ pc' = "done"
                 /\ rc' = 1
                 /\ console' = Append(console, "ERROR: request failed")
                 /\ UNCHANGED data
    /\ UNCHANGED <<raw, stage, panel, out, env, argv>>

\* One turn of the loop over a state dictionary: the request for the state
\* at the position of the loop, its frame appended to all_data, or the state
\* appended to failed_states.
FetchStateStep ==
    /\ pc = "states"
    /\ data.i <= Len(series_dict(data.series))
    /\ \E ok \in BOOLEAN :
         LET s == series_dict(data.series)[data.i]
         IN  /\ net' = Append(net, Request(data.series, s, ok))
             /\ data' = [data EXCEPT
                           !.i = next_item(data.i, ok),
                           !.all_data = IF ok THEN Append(@, state_frame(data.series, s))
                                        ELSE @,
                           !.failed_states = IF ok THEN @ ELSE Append(@, s)]
    /\ UNCHANGED <<raw, stage, pc, rc, panel, out, env, argv, console>>

\* What main does after the loop named key has returned: the national
\* supplementary series after the unemployment rates, the next dictionary,
\* save_raw_data after the last one.
after_loop(key) ==
    CASE key = "state_unemployment" -> [pc |-> "national", series |-> key]
      [] key = "employment_level" -> [pc |-> "states", series |-> "labor_force_level"]
      [] key = "labor_force_level" -> [pc |-> "states", series |-> "private_employment"]
      [] key = "private_employment" -> [pc |-> "save", series |-> key]

\* What a state fetcher does when no request of its loop was answered:
\* fetch_state_unemployment_rates raises ValueError,
\* fetch_state_supplementary_series returns None.
never_raises(key) == FALSE
always_raises(key) == TRUE
raises_on_no_frame(key) == key = "state_unemployment"

\* The end of a loop: the frames combined and sorted by (date, state); with
\* no frame at all fetch_state_unemployment_rates raises (main returns 1)
\* and fetch_state_supplementary_series returns None.
FetchStateEnd ==
    /\ pc = "states"
    /\ data.i > Len(series_dict(data.series))
    /\ LET key == data.series
           ended == [data EXCEPT !.ended = @ \cup {key}]
       IN  IF data.all_data = <<>> /\ raises_on_no_frame(key)
           THEN /\ pc' = "done"
                /\ rc' = 1
                /\ console' = Append(console, "ERROR: Failed to fetch data for all states")
                /\ data' = ended
           ELSE /\ pc' = after_loop(key).pc
                /\ data' = [ended EXCEPT
                              !.frames[key] =
                                  IF data.all_data = <<>> THEN None
                                  ELSE Fetched(combined_df(key, data.all_data)),
                              !.series = after_loop(key).series,
                              !.i = 1,
                              !.all_data = <<>>,
                              !.failed_states = <<>>]
                /\ UNCHANGED <<rc, console>>
    /\ UNCHANGED <<raw, stage, panel, out, env, argv, net>>

\* fetch_national_supplementary_data: three requests, each in its own try;
\* a series whose request fails is left out.
FetchNationalSupplementary ==
    /\ pc = "national"
    /\ \E answered \in SUBSET SeqToSet(NationalKeys) :
         /\ net' = net \o [i \in 1..Len(NationalKeys) |->
                              Request(NationalKeys[i], 0, NationalKeys[i] \in answered)]
         /\ data' = [data EXCEPT
                       !.frames = [k \in FetchedKeys |->
                                      IF k \in answered THEN Fetched(national_frame(k))
                                      ELSE @[k]],
                       !.series = "employment_level"]
    /\ pc' = "states"
    /\ UNCHANGED <<raw, stage, rc, panel, out, env, argv, console>>

\* The file name of a data key.
raw_file(k) == IF k \in DOMAIN core_files THEN core_files[k] ELSE optional_files[k]

\* save_raw_data and create_metadata_file: a file for every frame that is
\* not None and not empty, then the metadata file; main returns 0.
save_raw_data(dir, frames) ==
    [n \in DOMAIN dir |->
        IF n = "FETCH_METADATA.md" THEN File(NoPanel)
        ELSE IF \E k \in FetchedKeys :
                    /\ raw_file(k) = n
                    /\ frames[k].fetched
                    /\ frames[k].df.rows # <<>>
             THEN File(frames[CHOOSE k \in FetchedKeys : raw_file(k) = n].df)
             ELSE dir[n]]

FetchSave ==
    /\ pc = "save"
    /\ raw' = save_raw_data(raw, data.frames)
    /\ rc' = 0
    /\ pc' = "done"
    /\ UNCHANGED <<stage, data, panel, out, env, argv, net, console>>

\* The series list of main of fetch_bls_data.py: the names of the files.
bls_series ==
    <<"cpi", "total_nonfarm_employment", "civilian_labor_force",
      "total_private_employment", "manufacturing_employment",
      "construction_employment", "average_hourly_earnings", "job_openings",
      "quits_rate", "employment_level">>

bls_file(name) ==
    CASE name = "cpi" -> "cpi.csv"
      [] name = "total_nonfarm_employment" -> "total_nonfarm_employment.csv"
      [] name = "civilian_labor_force" -> "civilian_labor_force.csv"
      [] name = "total_private_employment" -> "total_private_employment.csv"
      [] name = "manufacturing_employment" -> "manufacturing_employment.csv"
      [] name = "construction_employment" -> "construction_employment.csv"
      [] name = "average_hourly_earnings" -> "average_hourly_earnings.csv"
      [] name = "job_openings" -> "job_openings.csv"
      [] name = "quits_rate" -> "quits_rate.csv"
      [] name = "employment_level" -> "employment_level.csv"

\* fetch_bls_series on an answered request: columns date and the name of the
\* series, sorted by date.
bls_frame(name) ==
    [cols |-> <<"date", name>>,
     rows |-> [d \in 1..MaxDate |-> (name :> Val(d * d)) @@ [date |-> d]]]

\* main of fetch_bls_data.py up to the loop.  Without BLS_API_KEY it prints
\* the error lines and returns 1; the script calls main() and drops what it
\* returns, so the process ends with exit code 0.
FetchBlsStart ==
    /\ pc = "idle"
    /\ stage' = "fetch_bls"
    /\ IF "BLS_API_KEY" \in env
       THEN /\ pc' = "bls"
            /\ data' = [i |-> 1, returned |-> 0]
            /\ UNCHANGED <<rc, console>>
       ELSE /\ pc' = "done"
            /\ data' = [i |-> 1, returned |-> 1]
            /\ console' = Append(console, "ERROR: BLS_API_KEY environment variable not set!")
            /\ rc' = 0
    /\ UNCHANGED <<raw, panel, out, env, argv, net>>

\* One turn of the loop of main of fetch_bls_data.py: the request, and the
\* file of the series at once when it was answered.
FetchBlsStep ==
    /\ pc = "bls"
    /\ data.i <= Len(bls_series)
    /\ \E ok \in BOOLEAN :
         LET name == bls_series[data.i]
         IN  /\ net' = Append(net, Request(name, 0, ok))
             /\ raw' = IF ok THEN [raw EXCEPT ![bls_file(name)] = File(bls_frame(name))]
                       ELSE raw
    /\ data' = [data EXCEPT !.i = @ + 1]
    /\ UNCHANGED <<stage, pc, rc, panel, out, env, argv, console>>

\* The end of main of fetch_bls_data.py: nothing returned, exit code 0.
FetchBlsEnd ==
    /\ pc = "bls"
    /\ data.i > Len(bls_series)
    /\ pc' = "done"
    /\ rc' = 0
    /\ UNCHANGED <<raw, stage, data, panel, out, env, argv, net, console>>

\* time.sleep(1) of download_missing_raw.py, as an entry of the request log:
\* the pause after a request.
Delay == [series |-> "time.sleep", state |-> 0, ok |-> TRUE]

\* The files download_national_supplementary downloads when they are
\* missing, in the order of its dictionary.
download_national == <<"inflation", "recession", "treasury_10y">>

\* The files download_state_data is called for, in the order of main.
download_states == <<"employment_level", "labor_force_level", "private_employment">>

\* download_csv on an answered request: columns date, value, the rows before
\* start_date dropped.
download_csv(key, s) ==
    LET answer == [i \in 1..(MaxDate - ProviderFrom(s) + 1) |->
                       [date |-> ProviderFrom(s) + i - 1,
                        value |-> Val(Observation(SeriesNo[key], ProviderFrom(s) + i - 1, s))]]
    IN  [cols |-> <<"date", "value">>,
         rows |-> SelectSeq(answer, LAMBDA r : DateGe(r.date, start_date))]

\* The value column of a state file of download_state_data: the file name
\* without "state_" and ".csv", underscores replaced by blanks.
download_column(key) ==
    CASE key = "employment_level" -> "employment level"
      [] key = "labor_force_level" -> "labor force level"
      [] key = "private_employment" -> "private employment"

\* The frame of one state in download_state_data: columns date, state and
\* the value column under its new name.
download_state_frame(key, s) ==
    LET df == download_csv(key, s)
    IN  [cols |-> <<"date", "state", download_column(key)>>,
         rows |-> [i \in 1..Len(df.rows) |->
                      (download_column(key) :> df.rows[i].value) @@
                      [date |-> df.rows[i].date, state |-> s]]]

RECURSIVE download_national_supplementary(_, _, _, _)
\* download_national_supplementary from the file at position i on: for each
\* missing file a request, the file when it was answered, then the pause.
\* Returns the directory and the request log.
download_national_supplementary(dir, log, answered, i) ==
    IF i > Len(download_national) THEN [raw |-> dir, net |-> log]
    ELSE LET key == download_national[i]
             n == optional_files[key]
         IN  IF dir[n].exists
             THEN download_national_supplementary(dir, log, answered, i + 1)
             ELSE download_national_supplementary(
                      IF key \in answered
                      THEN [dir EXCEPT ![n] = File(download_csv(key, 0))]
                      ELSE dir,
                      log \o <<Request(key, 0, key \in answered), Delay>>,
                      answered, i + 1)

\* main of download_missing_raw.py up to the state files: the national
\* files that are missing.
DownloadStart ==
    /\ pc = "idle"
    /\ stage' = "download_missing_raw"
    /\ \E answered \in SUBSET SeqToSet(download_national) :
         LET r == download_national_supplementary(raw, net, answered, 1)
         IN  /\ raw' = r.raw
             /\ net' = r.net
    /\ data' = [file |-> 1, i |-> 1, all_data |-> <<>>]
    /\ pc' = "download"
    /\ UNCHANGED <<rc, panel, out, env, argv, console>>

\* download_state_data for a file that exists already: nothing is requested.
DownloadSkip ==
    /\ pc = "download"
    /\ data.file <= Len(download_states)
    /\ data.i = 1
    /\ raw[optional_files[download_states[data.file]]].exists
    /\ data' = [data EXCEPT !.file = @ + 1]
    /\ UNCHANGED <<raw, stage, pc, rc, panel, out, env, argv, net, console>>

\* One turn of the loop of download_state_data: the request for the state,
\* its frame appended to all_data when it was answered, then the pause.
DownloadStateStep ==
    /\ pc = "download"
    /\ data.file <= Len(download_states)
    /\ ~(data.i = 1 /\ raw[optional_files[download_states[data.file]]].exists)
    /\ data.i <= Len(series_dict(download_states[data.file]))
    /\ \E ok \in BOOLEAN :
         LET key == download_states[data.file]
             s == series_dict(key)[data.i]
         IN  /\ net' = net \o <<Request(key, s, ok), Delay>>
             /\ data' = [data EXCEPT
                           !.i = @ + 1,
                           !.all_data = IF ok THEN Append(@, download_state_frame(key, s))
                                        ELSE @]
    /\ UNCHANGED <<raw, stage, pc, rc, panel, out, env, argv, console>>

\* The end of the loop of download_state_data: the frames combined, sorted
\* by (date, state) and written, when there is one.
DownloadStateEnd ==
    /\ pc = "download"
    /\ data.file <= Len(download_states)
    /\ data.i > Len(series_dict(download_states[data.file]))
    /\ LET key == download_states[data.file]
       IN  raw' = IF data.all_data = <<>> THEN raw
                  ELSE [raw EXCEPT
                           ![optional_files[key]] =
                               File(SortValues(
                                   [cols |-> <<"date", "state", download_column(key)>>,
                                    rows |-> concat_rows(data.all_data)],
                                   <<"date", "state">>))]
    /\ data' = [file |-> data.file + 1, i |-> 1, all_data |-> <<>>]
    /\ UNCHANGED <<stage, pc, rc, panel, out, env, argv, net, console>>

\* The end of main of download_missing_raw.py: nothing returned, exit code 0.
DownloadEnd ==
    /\ pc = "download"
    /\ data.file > Len(download_states)
    /\ pc' = "done"
    /\ rc' = 0
    /\ UNCHANGED <<raw, stage, data, panel, out, env, argv, net, console>>

-----------------------------------------------------------------------------
(* The behaviours *)

NoOutput == [n \in OutNames |-> NoFile]

NoRaw == [n \in RawDirNames |-> Absent]

\* No fetch entry point has run in this process.
NoFetch ==
    /\ env = {}
    /\ argv = {}
    /\ net = <<>>
    /\ console = <<>>

\* The cells of a state-scoped series that has the dates D1 for the first
\* state and the dates D for every other state.
Cells(D1, D) == (D1 \X {1}) \cup (D \X (States \ {1}))

\* What the first state may have when the others have the dates D: the same
\* dates, a series that starts one observation later or ends one earlier, or
\* nothing at all.
OddDates(D) ==
    {D, {}} \cup {D \ {d} : d \in {e \in D : \A x \in D : e <= x}}
            \cup {D \ {d} : d \in {e \in D : \A x \in D : e >= x}}

\* Core series of any coverage (no observations: the file is missing), no
\* optional file.
InitCore ==
    \E ffD \in SUBSET Dates, nuD \in SUBSET Dates, D \in SUBSET Dates :
      \E D1 \in OddDates(D) :
        raw = [NoRaw EXCEPT
                  !["federal_funds_rate.csv"] = NatFile("federal_funds", ffD),
                  !["national_unemployment_rate.csv"] =
                      NatFile("national_unemployment", nuD),
                  !["state_unemployment_rates.csv"] =
                      StateFile("state_unemployment", Cells(D1, D))]

\* Complete core series and optional series: inflation and the recession
\* indicator of any coverage, the treasury yield from the second month on,
\* the labor force level of every state.
InitNational ==
    \E inD \in SUBSET Dates, reD \in SUBSET Dates, treasury \in BOOLEAN, level \in BOOLEAN :
        raw = [NoRaw EXCEPT
                  !["federal_funds_rate.csv"] = NatFile("federal_funds", Dates),
                  !["national_unemployment_rate.csv"] =
                      NatFile("national_unemployment", Dates),
                  !["state_unemployment_rates.csv"] =
                      StateFile("state_unemployment", Dates \X States),
                  !["inflation_cpi.csv"] = NatFile("inflation", inD),
                  !["recession_indicator.csv"] = NatFile("recession", reD),
                  !["treasury_10y_yield.csv"] =
                      IF treasury THEN NatFile("treasury_10y", Dates \ {1}) ELSE Absent,
                  !["state_labor_force_level.csv"] =
                      IF level
                      THEN StateFile("labor_force_level", Dates \X States)
                      ELSE Absent]

\* Complete national core series, state unemployment for some states from
\* the second month on, and optional state-scoped series: private employment
\* for some states over some dates, the employment level of every state.
InitStateScoped ==
    \E suS \in SUBSET States \ {{}},
       peS \in SUBSET States, peD \in SUBSET Dates, level \in BOOLEAN :
        /\ peS = {} => peD = {}
        /\ peD = {} => peS = {}
        /\ raw = [NoRaw EXCEPT
                  !["federal_funds_rate.csv"] = NatFile("federal_funds", Dates),
                  !["national_unemployment_rate.csv"] =
                      NatFile("national_unemployment", Dates),
                  !["state_unemployment_rates.csv"] =
                      StateFile("state_unemployment", (Dates \ {1}) \X suS),
                  !["state_private_employment.csv"] =
                      StateFile("private_employment", peD \X peS),
                  !["state_employment_level.csv"] =
                      IF level
                      THEN StateFile("employment_level", Dates \X States)
                      ELSE Absent]

\* A national series from month lo to month hi.
NatSeries(key, lo, hi) ==
    [cols |-> <<"date", ValueColumn[key]>>,
     rows |-> [i \in 1..(hi - lo + 1) |-> NatRow(key, lo + i - 1)]]

RECURSIVE ConcatStates(_, _, _, _)
\* The frames of the states s..NumStates put one after the other (pd.concat),
\* the series of state x from month start[x] to month hi.
ConcatStates(key, start, hi, s) ==
    IF s > NumStates THEN <<>>
    ELSE [i \in 1..(hi - start[s] + 1) |-> StateRow(key, start[s] + i - 1, s)]
         \o ConcatStates(key, start, hi, s + 1)

\* A state-scoped series as the fetch combines and sorts it.
StateSeries(key, start, hi) ==
    SortValues([cols |-> <<"date", "state", ValueColumn[key]>>,
                rows |-> ConcatStates(key, start, hi, 1)],
               <<"date", "state">>)

\* The rows of a frame in the opposite order.
Reversed(t) ==
    [cols |-> t.cols, rows |-> [i \in 1..Len(t.rows) |-> t.rows[Len(t.rows) + 1 - i]]]

\* Complete series in files that are not in (date, state) order: the state
\* series state by state (the frames of the states one after the other) or
\* latest row first, the national series and the optional ones earliest or
\* latest row first.
InitUnordered ==
    \E byState \in BOOLEAN, ffLast \in BOOLEAN, nuLast \in BOOLEAN, optional \in BOOLEAN :
        raw = [NoRaw EXCEPT
                  !["federal_funds_rate.csv"] =
                      File(IF ffLast THEN Reversed(NatTable("federal_funds", Dates))
                           ELSE NatTable("federal_funds", Dates)),
                  !["national_unemployment_rate.csv"] =
                      File(IF nuLast THEN Reversed(NatTable("national_unemployment", Dates))
                           ELSE NatTable("national_unemployment", Dates)),
                  !["state_unemployment_rates.csv"] =
                      File(IF byState
                           THEN [cols |-> <<"date", "state", "unemployment_rate">>,
                                 rows |-> ConcatStates("state_unemployment",
                                                       [x \in States |-> 1], MaxDate, 1)]
                           ELSE Reversed(StateTable("state_unemployment",
                                                    Dates \X States))),
                  !["inflation_cpi.csv"] =
                      IF optional THEN File(Reversed(NatTable("inflation", Dates)))
                      ELSE Absent,
                  !["state_labor_force_level.csv"] =
                      IF optional
                      THEN File(Reversed(StateTable("labor_force_level",
                                                    Dates \X States)))
                      ELSE Absent]

\* A national series with one observation a year, in the first month of the
\* fetch window and every twelve months after it, up to month hi.
AnnualSeries(key, hi) ==
    [cols |-> <<"date", ValueColumn[key]>>,
     rows |-> [i \in 1..(((hi - 1) \div 12) + 1) |-> NatRow(key, 12 * (i - 1) + 1)]]

\* Long gap-free series: each state's unemployment from the first or the
\* second month on, federal funds likewise, to a last month around the
\* offsets of the derived columns; inflation without its first months, with
\* one observation a year, or no inflation file.
InitLong ==
    /\ \E hi \in (LongMonths - 1)..LongMonths, start \in [States -> 1..2],
          ffFrom \in 1..2, inflation \in {"none", "monthly", "annual"} :
          raw = [NoRaw EXCEPT
                    !["federal_funds_rate.csv"] =
                        File(NatSeries("federal_funds", ffFrom, hi)),
                    !["national_unemployment_rate.csv"] =
                        File(NatSeries("national_unemployment", 1, hi)),
                    !["state_unemployment_rates.csv"] =
                        File(StateSeries("state_unemployment", start, hi)),
                    !["inflation_cpi.csv"] =
                        CASE inflation = "monthly" -> File(NatSeries("inflation", 3, hi))
                          [] inflation = "annual" -> File(AnnualSeries("inflation", hi))
                          [] inflation = "none" -> Absent]
    /\ stage = "none"
    /\ pc = "idle"
    /\ rc = 0
    /\ data = <<>>
    /\ panel = NoPanel
    /\ out = NoOutput
    /\ NoFetch

Init ==
    /\ InitCore \/ InitNational \/ InitStateScoped \/ InitUnordered
    /\ stage = "none"
    /\ pc = "idle"
    /\ rc = 0
    /\ data = <<>>
    /\ panel = NoPanel
    /\ out = NoOutput
    /\ NoFetch

Next ==
    \/ BasicMain
    \/ EnhancedMain
    \/ SupplementaryMain
    \/ SupplementaryFails

Spec == Init /\ [][Next]_vars

\* A merge stage has ended and is started again: a new process, with the
\* raw files and the output files as they are.
Restart ==
    /\ pc = "done"
    /\ stage \in {"basic", "enhanced"}
    /\ pc' = "idle"
    /\ data' = <<>>
    /\ panel' = NoPanel
    /\ UNCHANGED <<raw, stage, rc, out>>
    /\ UNCHANGED fetch_vars

InitRerun ==
    /\ InitStateScoped \/ InitUnordered
    /\ stage = "none"
    /\ pc = "idle"
    /\ rc = 0
    /\ data = <<>>
    /\ panel = NoPanel
    /\ out = NoOutput
    /\ NoFetch

RerunNext == Next \/ Restart

\* The stages run any number of times on the same raw files.
RerunSpec == InitRerun /\ [][RerunNext]_vars

\* The stages run on the long series.
LongSpec == InitLong /\ [][Next]_vars

\* The fetch entry points start on an empty raw data directory, each
\* credential set or unset, the key given on the command line or not.
InitFetch ==
    /\ raw = NoRaw
    /\ stage = "none"
    /\ pc = "idle"
    /\ rc = 0
    /\ data = <<>>
    /\ panel = NoPanel
    /\ out = NoOutput
    /\ env \in SUBSET {"FRED_API_KEY", "BLS_API_KEY"}
    /\ argv \in SUBSET {"--api-key"}
    /\ net = <<>>
    /\ console = <<>>

FetchNext ==
    \/ FetchDataStart
    \/ FetchCore
    \/ FetchStateStep
    \/ FetchStateEnd
    \/ FetchNationalSupplementary
    \/ FetchSave
    \/ FetchBlsStart
    \/ FetchBlsStep
    \/ FetchBlsEnd

\* One run of a fetch entry point.
FetchSpec == InitFetch /\ [][FetchNext]_vars

\* download_missing_raw.py starts on an empty raw data directory or on one
\* in which fetch_data.py has saved some of the optional files.
InitDownload ==
    /\ \E inflation \in BOOLEAN, level \in BOOLEAN :
          raw = [NoRaw EXCEPT
                    !["inflation_cpi.csv"] =
                        IF inflation THEN File(national_frame("inflation")) ELSE Absent,
                    !["state_employment_level.csv"] =
                        IF level
                        THEN File(combined_df("employment_level",
                                              [i \in 1..NumStates |->
                                                  state_frame("employment_level", i)]))
                        ELSE Absent]
    /\ stage = "none"
    /\ pc = "idle"
    /\ rc = 0
    /\ data = <<>>
    /\ panel = NoPanel
    /\ out = NoOutput
    /\ NoFetch

DownloadNext ==
    \/ DownloadStart
    \/ DownloadSkip
    \/ DownloadStateStep
    \/ DownloadStateEnd
    \/ DownloadEnd

\* One run of download_missing_raw.py.
DownloadSpec == InitDownload /\ [][DownloadNext]_vars

-----------------------------------------------------------------------------
(* Vocabulary of the properties *)

CorePresent == \A k \in DOMAIN core_files : raw[core_files[k]].exists

su_raw == raw["state_unemployment_rates.csv"].table
ff_raw == raw["federal_funds_rate.csv"].table
nu_raw == raw["national_unemployment_rate.csv"].table

\* A merge stage has run and has assembled a panel.
Assembled == pc = "done" /\ stage \in {"basic", "enhanced"} /\ CorePresent

KeyOf(r) == <<r.date, r.state>>
KeySet(t) == {KeyOf(t.rows[i]) : i \in 1..Len(t.rows)}
StatesOf(t) == {t.rows[i].state : i \in 1..Len(t.rows)}

\* No two rows of t have the same (date, state) / the same date.
KeysUnique(t) ==
    \A i, j \in 1..Len(t.rows) : i # j => KeyOf(t.rows[i]) # KeyOf(t.rows[j])
DatesUnique(t) ==
    \A i, j \in 1..Len(t.rows) : i # j => t.rows[i].date # t.rows[j].date

\* Every series that was loaded holds at most one observation per key.
InputsKeyed ==
    \A k \in DOMAIN data :
        IF "state" \in SeqToSet(data[k].cols) THEN KeysUnique(data[k])
        ELSE DatesUnique(data[k])

Least(S) == CHOOSE x \in S : \A y \in S : x <= y
Greatest(S) == CHOOSE x \in S : \A y \in S : x >= y

\* The bounds as the specification words them: the maximum of the minimum
\* dates and the minimum of the maximum dates of the three required series.
MaxOfMins ==
    Greatest({Least(DateSet(su_raw)), Least(DateSet(ff_raw)), Least(DateSet(nu_raw))})
MinOfMaxes ==
    Least({Greatest(DateSet(su_raw)), Greatest(DateSet(ff_raw)), Greatest(DateSet(nu_raw))})

OptionalLoaded == DOMAIN data \cap DOMAIN optional_files

\* The cell of column c in the row of t with date d (and state s).
RowsAt(t, d) == {i \in 1..Len(t.rows) : t.rows[i].date = d}
RowsAtKey(t, d, s) == {i \in 1..Len(t.rows) : KeyOf(t.rows[i]) = <<d, s>>}

-----------------------------------------------------------------------------
(* Properties of the assembled panel *)

\* C1: in every panel create_state_panel returns (basic and enhanced,
\* after all optional left joins), given inputs with at most one observation
\* per date or per (date, state), no two rows have the same (date, state).
C1_UniqueKeys == Assembled /\ InputsKeyed => KeysUnique(panel)

\* An enhanced panel of several rows, assembled with an optional national and
\* an optional state-scoped series joined in.
C1_Witness ==
    /\ Assembled /\ InputsKeyed
    /\ stage = "enhanced"
    /\ {"inflation", "labor_force_level"} \subseteq DOMAIN data
    /\ Len(panel.rows) >= 2 * NumStates

\* C2: common_start is the maximum of the minimum dates and common_end the
\* minimum of the maximum dates of the three required series, every panel
\* row's date lies within them, and optional series do not move them.
C2_DatesWithinCommonRange ==
    Assembled =>
        /\ common_start(su_raw, ff_raw, nu_raw) = MaxOfMins
        /\ common_end(su_raw, ff_raw, nu_raw) = MinOfMaxes
        /\ \A i \in 1..Len(panel.rows) :
              MaxOfMins <= panel.rows[i].date /\ panel.rows[i].date <= MinOfMaxes

\* An enhanced panel with rows whose optional series start before common_start.
C2_Witness ==
    /\ Assembled
    /\ stage = "enhanced"
    /\ panel.rows # <<>>
    /\ \E k \in OptionalLoaded : \E d \in DateSet(data[k]) : d < MaxOfMins

\* The three required series are gap-free and every state of the state
\* series has an observation for every month of that series' range.
GapFree ==
    /\ DateSet(ff_raw) = Least(DateSet(ff_raw))..Greatest(DateSet(ff_raw))
    /\ DateSet(nu_raw) = Least(DateSet(nu_raw))..Greatest(DateSet(nu_raw))
    /\ KeySet(su_raw) =
           (Least(DateSet(su_raw))..Greatest(DateSet(su_raw))) \X StatesOf(su_raw)

\* C3: for gap-free required series with N states, the panel has exactly one
\* row for every (month, state) with the month in [common_start, common_end],
\* N x months rows, first date common_start, last date common_end, and no
\* null federal_funds_rate or national_unemployment_rate.
C3_GapFreePanelIsComplete ==
    Assembled /\ GapFree =>
        /\ KeySet(panel) = (MaxOfMins..MinOfMaxes) \X StatesOf(su_raw)
        /\ KeysUnique(panel)
        /\ Len(panel.rows) =
               Cardinality(StatesOf(su_raw)) * Cardinality(MaxOfMins..MinOfMaxes)
        /\ panel.rows # <<>> =>
               /\ panel.rows[1].date = MaxOfMins
               /\ panel.rows[Len(panel.rows)].date = MinOfMaxes
        /\ \A i \in 1..Len(panel.rows) :
               /\ panel.rows[i].federal_funds_rate # NaN
               /\ panel.rows[i].national_unemployment_rate # NaN

\* Gap-free series of different ranges, several states, a range of several months.
C3_Witness ==
    /\ Assembled /\ GapFree
    /\ Cardinality(StatesOf(su_raw)) >= 2
    /\ MinOfMaxes > MaxOfMins
    /\ DateSet(ff_raw) # DateSet(nu_raw)
    /\ Len(panel.rows) >= 4

\* The base panel of the series that were loaded.
LoadedBase ==
    base_panel(data.state_unemployment, data.federal_funds, data.national_unemployment)

\* C4: the base panel has a row for (d, s) if and only if the state series
\* has an observation for (d, s) and the federal funds and the national
\* unemployment series have one for d; the row carries those three values.
C4_BasePanelIsIntersection ==
    Assembled =>
        LET base == LoadedBase
        IN  /\ KeySet(base) =
                   {k \in KeySet(su_raw) : k[1] \in DateSet(ff_raw) \cap DateSet(nu_raw)}
            /\ KeysUnique(base)
            /\ \A i \in 1..Len(base.rows) :
                 LET r == base.rows[i]
                 IN  /\ \E j \in 1..Len(su_raw.rows) :
                            /\ KeyOf(su_raw.rows[j]) = KeyOf(r)
                            /\ su_raw.rows[j].unemployment_rate = r.unemployment_rate
                     /\ \E j \in 1..Len(ff_raw.rows) :
                            /\ ff_raw.rows[j].date = r.date
                            /\ ff_raw.rows[j].federal_funds_rate = r.federal_funds_rate
                     /\ \E j \in 1..Len(nu_raw.rows) :
                            /\ nu_raw.rows[j].date = r.date
                            /\ nu_raw.rows[j].national_unemployment_rate =
                                   r.national_unemployment_rate

\* A base panel with rows that leaves out a state observation of a date the
\* federal funds series lacks and one of a date national unemployment lacks.
C4_Witness ==
    /\ Assembled
    /\ LoadedBase.rows # <<>>
    /\ \E k \in KeySet(su_raw) : k[1] \notin DateSet(ff_raw) /\ k[1] \in DateSet(nu_raw)
    /\ \E k \in KeySet(su_raw) : k[1] \notin DateSet(nu_raw) /\ k[1] \in DateSet(ff_raw)

\* C5: when a required raw file is absent, load_raw_data raises before any
\* merge, the merge stage's main returns a non-zero exit code, and no
\* processed panel, final panel or quality report is written.
C5_MissingRequiredFileFails ==
    ~CorePresent =>
        /\ ~load_raw_data(raw).ok /\ ~load_raw_data_basic(raw).ok
        /\ data = <<>> /\ panel = NoPanel
        /\ pc = "done" => rc # 0
        /\ \A n \in OutNames : ~out[n].exists

\* The enhanced stage has run with just the national unemployment file missing.
C5_Witness ==
    /\ pc = "done" /\ stage = "enhanced"
    /\ ~raw["national_unemployment_rate.csv"].exists
    /\ raw["federal_funds_rate.csv"].exists
    /\ raw["state_unemployment_rates.csv"].exists

\* The required series have no date range in common.
NoOverlap ==
    /\ CorePresent
    /\ \/ MaxOfMins > MinOfMaxes
       \/ DateSet(su_raw) \cap DateSet(ff_raw) \cap DateSet(nu_raw) = {}

PanelFiles ==
    {"panel_processed.csv", "analysis_panel.csv",
     "panel_enhanced.csv", "analysis_panel_enhanced.csv"}

\* C6: when the required series have no overlapping date range, the assembler
\* fails: it returns no panel (an empty one in particular), the stage writes
\* no panel file and exits non-zero.
C6_NoOverlapFails ==
    pc = "done" /\ stage \in {"basic", "enhanced"} /\ NoOverlap =>
        /\ rc # 0
        /\ panel = NoPanel
        /\ \A n \in PanelFiles : ~out[n].exists

\* The panel the assembler returns for the series loaded without the series k.
PanelWithout(k) ==
    create_state_panel(data.state_unemployment, data.federal_funds,
                       data.national_unemployment,
                       [j \in DOMAIN data \ {k} |-> data[j]])

\* C7: with an optional file absent the enhanced stage completes with exit
\* code 0 and writes the panel; the panel has the (date, state) rows and the
\* row count it has with the file present, and not the optional column.
C7_AbsentOptionalFileIsSkipped ==
    pc = "done" /\ stage = "enhanced" /\ CorePresent =>
        /\ rc = 0
        /\ out["panel_enhanced.csv"] = Written("enhanced", panel)
        /\ out["analysis_panel_enhanced.csv"] = Written("enhanced", panel)
        /\ \A k \in DOMAIN optional_files :
              IF raw[optional_files[k]].exists
              THEN LET without == PanelWithout(k)
                   IN  /\ ValueColumn[k] \in SeqToSet(panel.cols)
                       /\ KeySet(without) = KeySet(panel)
                       /\ Len(without.rows) = Len(panel.rows)
              ELSE ValueColumn[k] \notin SeqToSet(panel.cols)

\* The enhanced stage has run without the recession indicator and without the
\* private employment file, with other optional files, and the panel has rows.
C7_Witness ==
    /\ pc = "done" /\ stage = "enhanced" /\ CorePresent
    /\ ~raw["recession_indicator.csv"].exists
    /\ ~raw["state_private_employment.csv"].exists
    /\ raw["inflation_cpi.csv"].exists
    /\ raw["state_labor_force_level.csv"].exists
    /\ panel.rows # <<>>

\* The panel column the supplementary stage takes from each raw file.
SupplementaryColumn ==
    [inflation |-> "inflation_cpi", recession |-> "recession_indicator",
     treasury |-> "treasury_10y_yield"]

\* The optional national columns merged into the panel by the stage that
\* has run, each with the frame it was merged from.
NationalColumns ==
    IF stage = "enhanced"
    THEN {<<ValueColumn[k], data[k]>> : k \in SeqToSet(NationalKeys) \cap DOMAIN data}
    ELSE {<<SupplementaryColumn[k], data[k]>> :
              k \in SeqToSet(SupplementaryKeys) \cap DOMAIN data}
         \cup {<<c, data.shares>> : c \in SeqToSet(data.shares.cols) \ {"date"}}

\* The values the frame t holds in column c for date d.
Readings(t, c, d) == {t.rows[i][c] : i \in RowsAt(t, d)} \ {NaN}

MergedNational ==
    /\ pc = "done" /\ rc = 0
    /\ stage \in {"enhanced", "supplementary"}

\* C8: for every optional national column merged into the panel and every
\* date d, all state rows of d hold the same value, the source's reading for
\* d, and null exactly when the source has no reading for d.
C8_Broadcast ==
    MergedNational =>
        \A ct \in NationalColumns :
            /\ ct[1] \in SeqToSet(panel.cols)
            /\ \A i \in 1..Len(panel.rows) :
                 LET v == panel.rows[i][ct[1]]
                     d == panel.rows[i].date
                 IN  /\ \A j \in RowsAt(panel, d) : panel.rows[j][ct[1]] = v
                     /\ v = NaN <=> Readings(ct[2], ct[1], d) = {}
                     /\ v # NaN => v \in Readings(ct[2], ct[1], d)

\* The supplementary stage has merged inflation and an employment share into
\* a panel of several states; each has a date with and a date without a reading.
C8_Witness ==
    /\ MergedNational /\ stage = "supplementary"
    /\ "inflation" \in DOMAIN data
    /\ "manufacturing_employment_share" \in SeqToSet(panel.cols)
    /\ \A c \in {"inflation_cpi", "manufacturing_employment_share"} :
          /\ \E i, j \in 1..Len(panel.rows) :
                /\ panel.rows[i].date = panel.rows[j].date
                /\ panel.rows[i].state # panel.rows[j].state
                /\ panel.rows[i][c] = NaN
          /\ \E i, j \in 1..Len(panel.rows) :
                /\ panel.rows[i].date = panel.rows[j].date
                /\ panel.rows[i].state # panel.rows[j].state
                /\ panel.rows[i][c] # NaN

\* The number of rows of t for each (date, state).
KeyBag(t) ==
    LET rows == t.rows
    IN  [k \in {KeyOf(rows[i]) : i \in 1..Len(rows)} |->
            Cardinality({i \in 1..Len(rows) : KeyOf(rows[i]) = k})]

\* The base panel after the left joins of the optional national series.
WithNational == left_join_all(LoadedBase, NationalKeys, data, <<"date">>)

\* C9: left-joining optional national series (at most one observation per
\* date) neither removes nor adds rows - the (date, state) keys after the
\* joins are, with their multiplicities, those before - and a date the
\* series lacks yields null cells.
C9_NationalJoinKeepsRows ==
    /\ pc = "done" /\ stage = "enhanced" /\ CorePresent /\ InputsKeyed =>
          LET joined == WithNational
          IN  /\ KeyBag(joined) = KeyBag(LoadedBase)
              /\ \A k \in SeqToSet(NationalKeys) \cap DOMAIN data :
                 \A i \in 1..Len(joined.rows) :
                    joined.rows[i].date \notin DateSet(data[k]) =>
                        joined.rows[i][ValueColumn[k]] = NaN
              /\ KeyBag(panel) = KeyBag(FilterDates(LoadedBase, MaxOfMins, MinOfMaxes))
    /\ MergedNational /\ stage = "supplementary" =>
          /\ KeyBag(panel) = KeyBag(out["analysis_panel.csv"].table)
          /\ \A k \in SeqToSet(SupplementaryKeys) \cap DOMAIN data :
             \A i \in 1..Len(panel.rows) :
                panel.rows[i].date \notin DateSet(data[k]) =>
                    panel.rows[i][SupplementaryColumn[k]] = NaN

\* The enhanced stage has joined an inflation series that lacks a date of the
\* base panel: the panel has rows with and rows without an inflation value.
C9_Witness ==
    /\ pc = "done" /\ stage = "enhanced" /\ CorePresent /\ InputsKeyed
    /\ "inflation" \in DOMAIN data
    /\ \E i, j \in 1..Len(panel.rows) :
          /\ panel.rows[i].inflation_cpi = NaN
          /\ panel.rows[j].inflation_cpi # NaN

\* C10: left-joining an optional state-scoped series on (date, state) keeps
\* every base-panel row; a row of a (date, state) the series does not cover
\* has a null in the optional column, a covered row the value of its own
\* (date, state) observation.
C10_StateJoinKeepsRows ==
    pc = "done" /\ stage = "enhanced" /\ CorePresent =>
        /\ KeyBag(panel) = KeyBag(FilterDates(LoadedBase, MaxOfMins, MinOfMaxes))
        /\ \A k \in SeqToSet(StateKeys) \cap DOMAIN data :
           \A i \in 1..Len(panel.rows) :
              LET v == panel.rows[i][ValueColumn[k]]
                  own == {data[k].rows[j][ValueColumn[k]] :
                             j \in RowsAtKey(data[k], panel.rows[i].date,
                                             panel.rows[i].state)}
              IN  IF own = {} THEN v = NaN ELSE own = {v}

\* Private employment covers some of the states of the panel: the panel has
\* a row of a covered state with its value and rows of a state not covered.
C10_Witness ==
    /\ pc = "done" /\ stage = "enhanced" /\ CorePresent
    /\ "private_employment" \in DOMAIN data
    /\ \E s \in StatesOf(panel) \ StatesOf(data.private_employment) :
          Cardinality({i \in 1..Len(panel.rows) : panel.rows[i].state = s}) >= 2
    /\ \E i \in 1..Len(panel.rows) : panel.rows[i].private_employment # NaN

-----------------------------------------------------------------------------
(* Properties of the derived columns *)

\* The supplementary stage has run to its end.
Derived == pc = "done" /\ stage = "supplementary" /\ rc = 0

\* The rows of the state of row i with an earlier date than row i.
EarlierOfState(t, i) ==
    {j \in 1..Len(t.rows) :
        t.rows[j].state = t.rows[i].state /\ t.rows[j].date < t.rows[i].date}

\* The cell of column col k positions before row i in the chronological
\* sequence of the state of row i; null when the sequence does not reach
\* that far back.
OwnValueBack(t, col, k, i) ==
    LET E == EarlierOfState(t, i)
    IN  IF Cardinality(E) < k THEN NaN
        ELSE LET j == CHOOSE x \in E :
                        Cardinality({y \in E : t.rows[y].date > t.rows[x].date}) = k - 1
             IN  t.rows[j][col]

\* C11: unemployment_lagged_1mo of the row at position t of its state's
\* chronological rows is the state's unemployment_rate at position t-1, and
\* null at t = 0; it never comes from another state's row.
C11_GroupedLag ==
    Derived =>
        \A i \in 1..Len(panel.rows) :
            panel.rows[i].unemployment_lagged_1mo =
                OwnValueBack(panel, "unemployment_rate", 1, i)

\* States interleaved in the panel: a row with a lag whose preceding panel row
\* is of another state, and a row other than the panel's first without a lag.
C11_Witness ==
    /\ Derived
    /\ \E i \in 2..Len(panel.rows) :
          /\ panel.rows[i].unemployment_lagged_1mo # NaN
          /\ panel.rows[i - 1].state # panel.rows[i].state
    /\ \E i \in 2..Len(panel.rows) : panel.rows[i].unemployment_lagged_1mo = NaN

\* C12: unemployment_yoy_change of the row at position t of its state's
\* chronological rows is the state's unemployment_rate at t-1 minus that at
\* t-13, and null for the first 13 rows of every state.
C12_YoyOffsets ==
    Derived =>
        \A i \in 1..Len(panel.rows) :
            /\ panel.rows[i].unemployment_yoy_change =
                   Minus(OwnValueBack(panel, "unemployment_rate", 1, i),
                         OwnValueBack(panel, "unemployment_rate", 13, i))
            /\ Cardinality(EarlierOfState(panel, i)) < 13 =>
                   panel.rows[i].unemployment_yoy_change = NaN

\* A state with a fourteenth row, which has a change, next to a state whose
\* thirteenth row is its last one and has none.
C12_Witness ==
    /\ Derived
    /\ \E i \in 1..Len(panel.rows) :
          /\ Cardinality(EarlierOfState(panel, i)) = 13
          /\ panel.rows[i].unemployment_yoy_change # NaN
    /\ \E i \in 1..Len(panel.rows) :
          /\ Cardinality(EarlierOfState(panel, i)) = 12
          /\ panel.rows[i].date = panel.rows[Len(panel.rows)].date
          /\ panel.rows[i].unemployment_yoy_change = NaN

\* The federal funds rate the panel t holds for date d (the cell of the first
\* row of d).
FedRateAt(t, d) ==
    t.rows[CHOOSE i \in RowsAt(t, d) : \A j \in RowsAt(t, d) : i <= j].federal_funds_rate

\* C13: fed_rate_change of every row (d, s) is the federal funds rate of
\* date d minus the rate of the immediately preceding date of the panel.
C13_FedRateChange ==
    Derived =>
        \A i \in 1..Len(panel.rows) :
            LET d == panel.rows[i].date
                before == {e \in DateSet(panel) : e < d}
            IN  before # {} =>
                    panel.rows[i].fed_rate_change =
                        Minus(FedRateAt(panel, d), FedRateAt(panel, Greatest(before)))

\* The rows of the trailing window of row i: the row and the rows of its
\* state before it, the latest twelve of them.
OwnWindow(t, i) ==
    LET E == EarlierOfState(t, i) \cup {i}
    IN  {j \in E : Cardinality({y \in E : t.rows[y].date > t.rows[j].date}) < 12}

\* The unemployment rates of the window of row i, in chronological order.
OwnWindowValues(t, i) ==
    LET W == OwnWindow(t, i)
        at == [k \in 1..Cardinality(W) |->
                  CHOOSE j \in W :
                      Cardinality({y \in W : t.rows[y].date < t.rows[j].date}) = k - 1]
        cells == [k \in 1..Cardinality(W) |-> t.rows[at[k]].unemployment_rate]
        nums == SelectSeq(cells, LAMBDA c : c # NaN)
    IN  [k \in 1..Len(nums) |-> nums[k][1]]

\* C14: unemployment_volatility_12mo of panel row (d, s) is the rolling
\* standard deviation of the unemployment rates of s over the trailing
\* window of at most 12 rows of s that ends at d.
C14_VolatilityOnOwnRows ==
    Derived =>
        \A i \in 1..Len(panel.rows) :
            panel.rows[i].unemployment_volatility_12mo =
                SampleStd(OwnWindowValues(panel, i))

\* C15: with a minimum of 1 period, unemployment_volatility_12mo is non-null
\* on every row whose window holds at least one non-null unemployment rate,
\* the first row of each state's sequence included.
C15_VolatilityFromFirstRow ==
    Derived =>
        \A i \in 1..Len(panel.rows) :
            OwnWindowValues(panel, i) # <<>> =>
                panel.rows[i].unemployment_volatility_12mo # NaN

-----------------------------------------------------------------------------
(* Properties of the runs *)

\* The rows of t are in ascending (date, state) order.
InKeyOrder(t) ==
    \A i \in 1..(Len(t.rows) - 1) :
        \/ t.rows[i].date < t.rows[i + 1].date
        \/ /\ t.rows[i].date = t.rows[i + 1].date
           /\ t.rows[i].state <= t.rows[i + 1].state

\* C16: every panel create_state_panel returns is sorted ascending by
\* (date, state), whatever the row order of the input files.
C16_PanelSorted == Assembled => InKeyOrder(panel)

\* An enhanced panel of several dates and states assembled from a state
\* series and an optional state series that are not in (date, state) order.
C16_Witness ==
    /\ Assembled /\ stage = "enhanced"
    /\ ~InKeyOrder(su_raw)
    /\ "labor_force_level" \in DOMAIN data
    /\ ~InKeyOrder(data.labor_force_level)
    /\ Cardinality(DateSet(panel)) >= 2
    /\ Cardinality(StatesOf(panel)) >= 2

C18_AllOrNothing ==
    pc = "done" /\ rc # 0 => \A n \in OutNames : out[n].by # stage

-----------------------------------------------------------------------------
(* Properties of the fetch entry points *)

\* The entry point that ran finds neither its credential in the environment
\* nor a key on the command line (fetch_bls_data.py has no such option).
CredentialMissing ==
    \/ stage = "fetch_data" /\ "FRED_API_KEY" \notin env /\ "--api-key" \notin argv
    \/ stage = "fetch_bls" /\ "BLS_API_KEY" \notin env

\* C19: a fetch entry point started without its credential and without an
\* override ends with a non-zero exit code and an error line, has sent no
\* request and has written no file.
C19_MissingCredentialIsFatal ==
    pc = "done" /\ CredentialMissing =>
        /\ rc # 0
        /\ console # <<>>
        /\ net = <<>>
        /\ raw = NoRaw

\* The requests of the loop over the dictionary named key, in the order sent.
RequestsOf(key) == SelectSeq(net, LAMBDA q : q.series = key)

\* The states whose request in that loop was answered.
Succeeded(key) == {s \in States : Request(key, s, TRUE) \in SeqToSet(net)}

\* The observations the provider holds for state s of the series from
\* start_date on.
ObservationsOf(key, s) ==
    {StateRow(key, d, s) : d \in {x \in Dates : x >= ProviderFrom(s)}}

\* C20: when a state loop of fetch_data.py (started with a key) has ended, every state of its
\* dictionary has been requested once, in the order of the dictionary,
\* whichever requests failed; and when some request was answered, the frame
\* returned holds exactly the observations of the answered states, once
\* each, sorted by (date, state).
C20_LoopSurvivesFailure ==
    stage = "fetch_data" /\ ~CredentialMissing /\ pc \in {"states", "national", "save", "done"} =>
        \A key \in data.ended :
            LET sent == RequestsOf(key)
                ok == Succeeded(key)
                df == data.frames[key].df
                expected == UNION {ObservationsOf(key, s) : s \in ok}
            IN  /\ [i \in 1..Len(sent) |-> sent[i].state] = series_dict(key)
                /\ ok # {} =>
                      /\ data.frames[key].fetched
                      /\ SeqToSet(df.rows) = expected
                      /\ Len(df.rows) = Cardinality(expected)
                      /\ InKeyOrder(df)

\* A loop has ended in which the request for the first state failed and the
\* request for a later state was answered.
C20_Witness ==
    /\ stage = "fetch_data"
    /\ ~CredentialMissing
    /\ pc \in {"states", "national", "save", "done"}
    /\ \E key \in data.ended :
          /\ Request(key, 1, FALSE) \in SeqToSet(net)
          /\ \E s \in States \ {1} : Request(key, s, TRUE) \in SeqToSet(net)
          /\ data.frames[key].df.rows # <<>>

\* A request for a mandatory series failed: the federal funds rate, the
\* national unemployment rate, or every state of the unemployment loop.
MandatoryFailed ==
    \/ Request("federal_funds", 0, FALSE) \in SeqToSet(net)
    \/ Request("national_unemployment", 0, FALSE) \in SeqToSet(net)
    \/ /\ "state_unemployment" \in data.ended
       /\ Succeeded("state_unemployment") = {}

\* C21: a run of fetch_data.py (started with a key) in which a mandatory
\* series failed ends with a non-zero exit code and has written no file of
\* the raw data directory, the metadata file included; a run without such a
\* failure ends with exit code 0.
C21_MandatoryFailureSavesNothing ==
    stage = "fetch_data" /\ pc = "done" /\ ~CredentialMissing =>
        IF MandatoryFailed
        THEN rc # 0 /\ raw = NoRaw
        ELSE rc = 0

\* A run in which both national requests were answered and every request of
\* the unemployment loop failed has ended.
C21_Witness ==
    /\ stage = "fetch_data" /\ pc = "done" /\ ~CredentialMissing
    /\ Request("national_unemployment", 0, TRUE) \in SeqToSet(net)
    /\ "state_unemployment" \in data.ended
    /\ Succeeded("state_unemployment") = {}
    /\ Len(RequestsOf("state_unemployment")) = NumStates

\* C30: when every request of a state loop has failed, the unemployment
\* fetcher raises, so that the run ends with a non-zero exit code and no file
\* written, whereas a supplementary fetcher returns None: the run goes on,
\* and when it ends the core files are saved, the file of that series is
\* not, and the exit code is 0.
C30_AllStatesFail ==
    stage = "fetch_data" /\ ~CredentialMissing /\ pc \in {"states", "national", "save", "done"} =>
        \A key \in data.ended :
            Succeeded(key) = {} =>
                IF key = "state_unemployment"
                THEN pc = "done" /\ rc # 0 /\ raw = NoRaw
                ELSE /\ ~data.frames[key].fetched
                     /\ pc = "done" =>
                          /\ rc = 0
                          /\ ~raw[optional_files[key]].exists
                          /\ \A c \in DOMAIN core_files : raw[core_files[c]].exists

\* A run has ended with exit code 0 in which every request of the labor
\* force loop failed.
C30_Witness ==
    /\ stage = "fetch_data" /\ pc = "done" /\ rc = 0
    /\ "labor_force_level" \in data.ended
    /\ Succeeded("labor_force_level") = {}
    /\ Len(RequestsOf("labor_force_level")) = NumStates
    /\ raw["state_unemployment_rates.csv"].exists

\* An entry of the request log that is a request to a provider.
IsRequest(q) == q # Delay

\* C26: between any two consecutive requests of a run there is a pause.
C26_DelayBetweenRequests ==
    \A i \in 1..(Len(net) - 1) : ~(IsRequest(net[i]) /\ IsRequest(net[i + 1]))

\* C27: fed_rate_lagged_1mo of every row (d, s) is the federal funds rate of
\* the immediately preceding date of the panel, and is null exactly on the
\* rows of the first date of the panel.
C27_FedRateLagged ==
    Derived =>
        \A i \in 1..Len(panel.rows) :
            LET d == panel.rows[i].date
                before == {e \in DateSet(panel) : e < d}
            IN  panel.rows[i].fed_rate_lagged_1mo =
                    IF before = {} THEN NaN
                    ELSE FedRateAt(panel, Greatest(before))

-----------------------------------------------------------------------------
(* Properties of the date range *)

\* The joins of the stage that has run, on the frames it loaded, before the
\* date filter.
LoadedJoined ==
    joined_panel(data.state_unemployment, data.federal_funds,
                 data.national_unemployment, data)

\* C28: the date filter after the joins of create_state_panel removes no
\* row: every row of the joins has its date within [common_start, common_end].
C28_DateFilterRemovesNothing ==
    Assembled =>
        LET joined == LoadedJoined
            lo == common_start(data.state_unemployment, data.federal_funds,
                               data.national_unemployment)
            hi == common_end(data.state_unemployment, data.federal_funds,
                             data.national_unemployment)
        IN  /\ FilterDates(joined, lo, hi).rows = joined.rows
            /\ \A i \in 1..Len(joined.rows) :
                 lo <= joined.rows[i].date /\ joined.rows[i].date <= hi

\* The enhanced stage has assembled a panel of several dates and an optional
\* series from required series of which one reaches beyond the common range.
C28_Witness ==
    /\ Assembled /\ stage = "enhanced"
    /\ DOMAIN data # DOMAIN core_files
    /\ Cardinality(DateSet(panel)) >= 2
    /\ DateSet(su_raw) \cup DateSet(ff_raw) \cup DateSet(nu_raw) # DateSet(panel)

-----------------------------------------------------------------------------
(* Properties of the written files *)

\* C25: the panel in analysis_panel_enhanced.csv is balanced: it has as
\* many rows as it has states times dates, one row for every state on every
\* date.
C25_EnhancedPanelBalanced ==
    out["analysis_panel_enhanced.csv"].exists =>
        LET t == out["analysis_panel_enhanced.csv"].table
        IN  /\ Len(t.rows) = Cardinality(StatesOf(t)) * Cardinality(DateSet(t))
            /\ KeySet(t) = DateSet(t) \X StatesOf(t)

\* C24: an output file one stage has written is never written by another
\* stage, in whatever order the stages run.
C24_OwnSnapshot ==
    [][\A n \in OutNames :
           out[n].exists /\ out'[n] # out[n] => out'[n].by = out[n].by]_vars

\* The report of the merge stage that has run, and the panel file it wrote.
ReportName ==
    IF stage = "basic" THEN "M1_data_quality_report.md"
    ELSE "M2_enhanced_data_quality_report.md"

FinalName ==
    IF stage = "basic" THEN "analysis_panel.csv" ELSE "analysis_panel_enhanced.csv"

Reported ==
    /\ pc = "done" /\ stage \in {"basic", "enhanced"}
    /\ out[ReportName].exists /\ out[ReportName].by = stage

\* The number of rows of state s in the table t.
RowsOfState(t, s) == Cardinality({i \in 1..Len(t.rows) : t.rows[i].state = s})

-----------------------------------------------------------------------------
(* Properties of the frequency harmonizer *)

\* The file a loaded series was read from.
LoadedFrom(k) ==
    raw[IF k \in DOMAIN core_files THEN core_files[k] ELSE optional_files[k]].table

\* C22: after the enhanced stage has loaded and harmonized its series, a
\* series whose dates all fall in the same calendar month has a row for
\* every month from its first to its last date, and a national one carries
\* in each month the latest observation up to that month; every other
\* series is as it was loaded.
C22_AnnualSeriesUpsampled ==
    pc = "done" /\ stage = "enhanced" /\ rc = 0 =>
        \A k \in DOMAIN data :
            LET loaded == LoadedFrom(k)
                D == DateSet(loaded)
            IN  IF one_month(loaded)
                THEN /\ DateSet(data[k]) = Least(D)..Greatest(D)
                     /\ "state" \notin SeqToSet(loaded.cols) =>
                            \A i \in 1..Len(data[k].rows) :
                                \E j \in 1..Len(loaded.rows) :
                                    /\ loaded.rows[j].date =
                                           Greatest({e \in D : e <= data[k].rows[i].date})
                                    /\ data[k].rows[i][ValueColumn[k]] =
                                           loaded.rows[j][ValueColumn[k]]
                ELSE data[k] = loaded

====
